---- MODULE Spec2Model ----
(***************************************************************************)
(* Model of src/pem/be/main.py: the FastAPI chat backend around            *)
(* GeminiWrapper.  The process has one event loop.  lifespan() and the     *)
(* `async def chat` handler contain no await, so whichever of them runs    *)
(* holds the loop until it returns or raises.  Every task (the lifespan    *)
(* startup and each chat request) has its own program counter and locals;  *)
(* the external API (upload_file, get_file, start_chat, send_message,      *)
(* response.text) and the file system answer nondeterministically.         *)
(***************************************************************************)
EXTENDS Integers, Sequences, FiniteSets, TLC

\* ---------------------------------------------------------------- bounds
MaxReq == 2          \* chat requests that arrive during one run
MaxDirect == 1       \* direct calls of upload_and_process_files (SpecTwice)

\* ------------------------------------------------------------- constants
max_retries == 30
file_paths == <<"march24.pdf", "nov23.pdf">>
NDocs == Len(file_paths)

Lifespan == 0
Direct == -1
Reqs == 1..MaxReq
Tasks == {Direct, Lifespan} \cup Reqs

None == <<>>                      \* Python None
Miss == [full |-> FALSE, value |-> None]   \* lru_cache without an entry
Cached(v) == [full |-> TRUE, value |-> v]  \* lru_cache holding result v
HeaderEmpty == <<"">>             \* X-Session-Id: (empty string)
ClientIds == {<<"a">>}            \* ids a client makes up itself
uuid4(r) == <<"uuid4", r>>        \* the id generated inside request r
States == {"PROCESSING", "ACTIVE", "FAILED"}
NoError == [kind |-> "none", doc |-> 0, state |-> "none"]
Error(k, d, s) == [kind |-> k, doc |-> d, state |-> s]

VARIABLES
    processed_files,   \* self.processed_files
    chat_sessions,     \* self.chat_sessions: session id -> handle
    lru,               \* the lru_cache(maxsize=1) entry of upload_and_process_files
    pc,                \* where each task stands
    header,            \* the X-Session-Id header of each request
    session_id,        \* local session_id of chat()
    files,             \* local files of upload_and_process_files
    idx,               \* position of the running for loop
    retry_count,       \* local retry_count of _wait_for_files_active
    state,             \* file.state.name as last read by the task
    error,             \* the exception in flight
    result,            \* how the handler ended
    \* ---- history (observations, never read by the program)
    uploads,           \* per path: uploaded "never", "once" or "again"
    up_calls,          \* upload_file calls made by the task's bootstrap
    missing,           \* the task's existence check found a path missing
    shared,            \* earlier documents of this bootstrap spent sleeps
    seen,              \* last state read for each document, this bootstrap
    cache_states,      \* `seen` of the bootstrap that filled processed_files
    late,              \* the task's call began after a call had returned
    ret,               \* what upload_and_process_files returned to the task
    first_result,      \* what its first successful call returned
    boot,              \* outcome of the bootstrap the task ran
    start_chat_by,     \* outcome of the task's model.start_chat call
    used,              \* the handle the request sent its message on, if any
    peers,             \* same-id requests queued when the request was dispatched
    fresh,             \* the id had no handle when the request was dispatched
    failed_at,         \* the call whose exception ended the request
    during,            \* the queued request arrived while a bootstrap ran
    directs            \* direct calls made so far

prog == <<processed_files, chat_sessions, lru>>
reqv == <<header, session_id>>
locals == <<files, idx, retry_count, state, error, shared, seen>>
obs_boot == <<up_calls, missing>>
obs_call == <<late, ret, boot>>
obs_glob == <<uploads, cache_states, first_result, directs>>
obs_req == <<start_chat_by, used, peers, fresh, failed_at, during>>
vars == <<prog, pc, reqv, locals, result, obs_boot, obs_call, obs_glob, obs_req>>

\* ------------------------------------------------------------- scheduling
Parked == {"new", "queued", "done"}

\* `async def chat` and lifespan run on the one event loop and never await:
\* a handler starts only when no other task is between its first and last line.
EventLoopIdleThreadpool == TRUE
EventLoopIdle == \A t \in Tasks : pc[t] \in Parked

\* uvicorn serves requests only after the lifespan startup reached its yield.
StartupCompleteAlways == TRUE
StartupComplete == pc[Lifespan] = "done"

\* The labels inside the upload/poll sequence of upload_and_process_files.
Body == {"exists", "upload", "wait", "poll", "assign"}

\* ---------------------------------------------------------------- helpers
Falsy(h) == h \in {None, HeaderEmpty}

\* get_session_id: the header if it is truthy, else a new uuid4 (lines
\* 127-129); "Option 1" of its comment would be the client's address.
get_session_id_host(r) == IF Falsy(header[r]) THEN <<"host">> ELSE header[r]
get_session_id(r) == IF Falsy(header[r]) THEN uuid4(r) ELSE header[r]

\* Ids a client can put in the header: its own, or one a response returned.
Returned == {session_id[r] : r \in {q \in Reqs : result[q] = "ok"}}
Headers == {None, HeaderEmpty} \cup ClientIds \cup Returned

\* Line 71: the lru_cache wrapper returns a stored result without a call.
CacheHit == lru.full

\* Lines 71-75: the upload/poll body runs when the wrapper has no entry and
\* self.processed_files is None.
RunsBodyAlways == TRUE
RunsBody == ~CacheHit /\ processed_files = None

\* Lines 88-90: lru_cache stores nothing for a call that raises.
AfterRaiseCached(c) == Cached(None)
AfterRaise(c) == c

\* Order of the existence checks and the uploads: all checks, then all uploads.
BodyNextInterleaved(stage, i) ==
    IF stage = "exists" THEN <<"upload", i>>
    ELSE IF i < NDocs THEN <<"exists", i + 1>> ELSE <<"wait", 1>>
BodyNext(stage, i) ==
    IF i < NDocs THEN <<stage, i + 1>>
    ELSE IF stage = "exists" THEN <<"upload", 1>> ELSE <<"wait", 1>>

\* Line 110, first conjunct: the only state that keeps the while loop going.
StillProcessingUnlessActive(s) == s # "ACTIVE"
StillProcessing(s) == s = "PROCESSING"

\* The while condition of _wait_for_files_active (line 110).
KeepPollingOneMore(t) ==
    StillProcessing(state[t]) /\ retry_count[t] <= max_retries
KeepPolling(t) == StillProcessing(state[t]) /\ retry_count[t] < max_retries

\* Line 116: the only state that lets the loop go on to the next document.
IsActiveLenient(s) == s # "FAILED"
IsActive(s) == s = "ACTIVE"

\* Line 134: get_chat_session creates a handle only for an id without one.
NeedsHandleAlways(s) == TRUE
NeedsHandle(s) == s \notin DOMAIN chat_sessions

\* Line 135: the lazy bootstrap guard of get_chat_session.
CacheEmptyNever == FALSE
CacheEmpty == processed_files = None

\* Lines 150-155 and 166-169: an exception raised at `site` while a chat
\* request is handled leaves chat() as HTTPException(status_code=500): those
\* of get_chat_session and send_message are caught in get_response, that of
\* response.text by the `except Exception` of chat.
HTTPExceptionTextUncaught(site) == IF site = "text" THEN "unhandled" ELSE "500"
HTTPException(site) == "500"

\* The detail of that HTTPException: get_response prefixes str(e) (line 154),
\* chat passes str(e) on as it is (line 169).
detail(site) ==
    IF site = "none" THEN None
    ELSE IF site = "text" THEN <<"str(e)">>
    ELSE <<"Error processing message: ", "str(e)">>

\* Lines 150-155: the except clause of get_response prints and raises; it
\* does nothing to self.chat_sessions, whose entry for id s stays.
AfterFailedSendRollback(cs, s) == [k \in DOMAIN cs \ {s} |-> cs[k]]
AfterFailedSend(cs, s) == cs

\* One more successful upload of a path.
Counted(n) == IF n = "never" THEN "once" ELSE "again"

StartChatCalls(s) ==
    Cardinality({r \in Reqs : session_id[r] = s /\ start_chat_by[r] # "none"})

\* ------------------------------------------------------------------- Init
Init ==
    /\ processed_files = None
    /\ chat_sessions = <<>>
    /\ lru = Miss
    /\ pc = [t \in Tasks |-> IF t = Lifespan THEN "startup"
                             ELSE IF t = Direct THEN "done" ELSE "new"]
    /\ header = [r \in Reqs |-> None]
    /\ session_id = [r \in Reqs |-> None]
    /\ files = [t \in Tasks |-> <<>>]
    /\ idx = [t \in Tasks |-> 0]
    /\ retry_count = [t \in Tasks |-> 0]
    /\ state = [t \in Tasks |-> "none"]
    /\ error = [t \in Tasks |-> NoError]
    /\ result = [t \in Tasks |-> "none"]
    /\ uploads = [i \in 1..NDocs |-> "never"]
    /\ up_calls = [t \in Tasks |-> 0]
    /\ missing = [t \in Tasks |-> FALSE]
    /\ shared = [t \in Tasks |-> FALSE]
    /\ seen = [t \in Tasks |-> <<>>]
    /\ cache_states = <<>>
    /\ late = [t \in Tasks |-> FALSE]
    /\ ret = [t \in Tasks |-> None]
    /\ first_result = None
    /\ boot = [t \in Tasks |-> "none"]
    /\ start_chat_by = [r \in Reqs |-> "none"]
    /\ used = [r \in Reqs |-> {}]
    /\ peers = [r \in Reqs |-> {}]
    /\ fresh = [r \in Reqs |-> FALSE]
    /\ failed_at = [r \in Reqs |-> "none"]
    /\ during = [r \in Reqs |-> FALSE]
    /\ directs = 0

\* One step of task t: its next label and the locals of the call it is in.
Step(t, p, f, i, rc, st, sh, sn, e) ==
    /\ pc' = [pc EXCEPT ![t] = p]
    /\ files' = [files EXCEPT ![t] = f]
    /\ idx' = [idx EXCEPT ![t] = i]
    /\ retry_count' = [retry_count EXCEPT ![t] = rc]
    /\ state' = [state EXCEPT ![t] = st]
    /\ shared' = [shared EXCEPT ![t] = sh]
    /\ seen' = [seen EXCEPT ![t] = sn]
    /\ error' = [error EXCEPT ![t] = e]

Goto(t, p) ==
    /\ pc' = [pc EXCEPT ![t] = p]
    /\ UNCHANGED locals

\* An exception leaves the frames of _wait_for_files_active and of the try
\* block: their locals are gone, the exception is what is left.
Raise(t, e) == Step(t, "except", <<>>, 0, 0, "none", FALSE, <<>>, e)

\* The handler has ended: nothing of it is left but its outcome.
EndHandler(t, res) ==
    /\ Step(t, "done", <<>>, 0, 0, "none", FALSE, <<>>, NoError)
    /\ result' = [result EXCEPT ![t] = res]
    /\ up_calls' = [up_calls EXCEPT ![t] = 0]
    /\ missing' = [missing EXCEPT ![t] = FALSE]
    /\ late' = [late EXCEPT ![t] = FALSE]
    /\ ret' = [ret EXCEPT ![t] = None]

\* ------------------------------------------------- upload_and_process_files
\* lifespan, lines 15-17: the startup call.
Startup ==
    /\ pc[Lifespan] = "startup"
    /\ Goto(Lifespan, "uapf")
    /\ UNCHANGED <<prog, reqv, result, obs_boot, obs_call, obs_glob, obs_req>>

\* Lines 71-75: the lru_cache lookup, then the test of self.processed_files.
UapfEnter(t) ==
    /\ pc[t] = "uapf"
    /\ late' = [late EXCEPT ![t] = first_result # None]
    /\ IF RunsBody
       THEN /\ Step(t, "exists", <<>>, 1, 0, "none", FALSE, <<>>, NoError)
            /\ boot' = [boot EXCEPT ![t] = "running"]
       ELSE /\ Goto(t, IF CacheHit THEN "cached" ELSE "return")
            /\ UNCHANGED boot
    /\ UNCHANGED <<prog, reqv, result, obs_boot, ret, obs_glob, obs_req>>

\* Lines 77-79: os.path.exists(path) for the path at idx.
ExistsCheck(t) ==
    /\ pc[t] = "exists"
    /\ \E there \in BOOLEAN :
         IF there
         THEN /\ Step(t, BodyNext("exists", idx[t])[1], files[t],
                      BodyNext("exists", idx[t])[2], 0, "none", FALSE, <<>>,
                      NoError)
              /\ UNCHANGED missing
         ELSE /\ Raise(t, Error("FileNotFoundError", idx[t], "none"))
              /\ missing' = [missing EXCEPT ![t] = TRUE]
    /\ UNCHANGED <<prog, reqv, result, up_calls, obs_call, obs_glob, obs_req>>

\* Lines 81-84 and _upload_to_gemini (92-100): one genai.upload_file call.
Upload(t) ==
    /\ pc[t] = "upload"
    /\ up_calls' = [up_calls EXCEPT ![t] = @ + 1]
    /\ \E ok \in BOOLEAN :
         IF ok
         THEN /\ Step(t, BodyNext("upload", idx[t])[1],
                      Append(files[t], [path |-> file_paths[idx[t]],
                                        name |-> <<t, directs>>]),
                      BodyNext("upload", idx[t])[2], 0, "none", FALSE, <<>>,
                      NoError)
              /\ uploads' = [uploads EXCEPT ![idx[t]] = Counted(@)]
         ELSE /\ Raise(t, Error("upload", idx[t], "none"))
              /\ UNCHANGED uploads
    /\ UNCHANGED <<prog, reqv, result, missing, obs_call, cache_states,
                   first_result, directs, obs_req>>

\* Lines 116-119 for the document at idx, last read in state s after rc
\* sleeps: raise unless it is ACTIVE, else go on to the next document or,
\* after the last one, back to line 86.
Checked(t, s, rc) ==
    IF ~IsActive(s)
    THEN Raise(t, Error("state", idx[t], s))
    ELSE IF idx[t] < Len(files[t])
    THEN Step(t, "wait", files[t], idx[t] + 1, rc, "none", FALSE,
              Append(seen[t], s), NoError)
    ELSE Step(t, "assign", files[t], 0, 0, "none", FALSE, Append(seen[t], s),
              NoError)

\* genai.get_file answered s after rc sleeps: PROCESSING leads to the while
\* test (line 110); any other state ends the loop at once (lines 110, 116).
Observed(t, s, rc) ==
    IF s = "raise"
    THEN Raise(t, Error("get_file", idx[t], "none"))
    ELSE IF StillProcessing(s)
    THEN Step(t, "poll", files[t], idx[t], rc, s,
              IF pc[t] = "wait" THEN rc > 0 ELSE shared[t], seen[t], NoError)
    ELSE Checked(t, s, rc)

\* Lines 108-109: the first genai.get_file of the document at idx
\* (retry_count is set to 0 once, before the loop: line 106).
GetFile(t) ==
    /\ pc[t] = "wait"
    /\ idx[t] <= Len(files[t])
    /\ \E s \in States \cup {"raise"} : Observed(t, s, retry_count[t])
    /\ UNCHANGED <<prog, reqv, result, obs_boot, obs_call, obs_glob, obs_req>>

\* Lines 110-114: one turn of the while loop: sleep, get_file, count.
PollSleep(t) ==
    /\ pc[t] = "poll"
    /\ KeepPolling(t)
    /\ \E s \in States \cup {"raise"} : Observed(t, s, retry_count[t] + 1)
    /\ UNCHANGED <<prog, reqv, result, obs_boot, obs_call, obs_glob, obs_req>>

\* Lines 110 and 116-119 for a document whose last state is PROCESSING: the
\* while test fails on retry_count and the state check follows.
CheckActive(t) ==
    /\ pc[t] = "poll"
    /\ ~KeepPolling(t)
    /\ Checked(t, state[t], retry_count[t])
    /\ UNCHANGED <<prog, reqv, result, obs_boot, obs_call, obs_glob, obs_req>>

\* Line 86: self.processed_files = files.
Assign(t) ==
    /\ pc[t] = "assign"
    /\ processed_files' = files[t]
    /\ cache_states' = seen[t]
    /\ Step(t, "return", <<>>, 0, 0, "none", FALSE, <<>>, NoError)
    /\ UNCHANGED <<chat_sessions, lru, reqv, result, obs_boot, obs_call,
                   uploads, first_result, directs, obs_req>>

\* Back in the caller with value v: lifespan prints and yields (18, 21);
\* get_chat_session goes on to line 137.
Return(t, v) ==
    /\ first_result' = IF first_result = None THEN v ELSE first_result
    /\ boot' = [boot EXCEPT ![t] = IF @ = "running" THEN "ok" ELSE @]
    /\ IF t \in Reqs
       THEN /\ Goto(t, "start_chat")
            /\ ret' = [ret EXCEPT ![t] = v]
            /\ UNCHANGED <<result, obs_boot, late>>
       ELSE EndHandler(t, "ok")
    /\ UNCHANGED <<processed_files, chat_sessions, reqv, uploads, cache_states,
                   directs, obs_req>>

\* Line 87: return self.processed_files, which the wrapper stores; or, on a
\* hit (line 71), the wrapper returns the stored list without a call.
UapfReturn(t) ==
    /\ pc[t] \in {"return", "cached"}
    /\ lru' = IF pc[t] = "cached" THEN lru ELSE Cached(processed_files)
    /\ Return(t, IF pc[t] = "cached" THEN lru.value ELSE processed_files)

\* Lines 88-90: the exception is printed and raised again.  lifespan logs it
\* (19-20) and yields; in a request get_response turns it into
\* HTTPException(500) (150-155), which chat raises again (166-167).
UapfExcept(t) ==
    /\ pc[t] = "except"
    /\ boot' = [boot EXCEPT ![t] = "failed"]
    /\ lru' = AfterRaise(lru)
    /\ failed_at' = IF t \in Reqs THEN [failed_at EXCEPT ![t] = "bootstrap"]
                    ELSE failed_at
    /\ EndHandler(t, IF t \in Reqs THEN HTTPException("bootstrap")
                     ELSE "logged")
    /\ UNCHANGED <<processed_files, chat_sessions, reqv, obs_glob,
                   start_chat_by, used, peers, fresh, during>>

\* ------------------------------------------------------------ POST /chat
\* A client sends a request; it waits for the event loop.  uvicorn.run (line
\* 178) listens only once the startup is complete.  No handler reads the
\* queue, so an arrival in the middle of a handler is the same to the program
\* as one at its end: arrivals are generated between handlers and, for a
\* request that arrives during a bootstrap, at the bootstrap's first loop.
Arrive(r) ==
    /\ pc[r] = "new"
    /\ r = 1 \/ pc[r - 1] # "new"
    /\ StartupComplete
    /\ EventLoopIdle \/ \E t \in Tasks : pc[t] = "exists"
    /\ \E h \in Headers : header' = [header EXCEPT ![r] = h]
    /\ during' = [during EXCEPT ![r] = \E t \in Tasks : pc[t] \in Body]
    /\ Goto(r, "queued")
    /\ UNCHANGED <<prog, session_id, result, obs_boot, obs_call, obs_glob,
                   start_chat_by, used, peers, fresh, failed_at>>

\* Lines 160-164, get_session_id (121-130), get_response up to line 148.
Chat(r) ==
    /\ pc[r] = "queued"
    /\ StartupComplete
    /\ EventLoopIdle
    /\ session_id' = [session_id EXCEPT ![r] = get_session_id(r)]
    /\ header' = [header EXCEPT ![r] = None]
    /\ peers' = [peers EXCEPT ![r] =
           {q \in Reqs \ {r} : pc[q] = "queued" /\ header[q] = get_session_id(r)}]
    /\ fresh' = [fresh EXCEPT ![r] = get_session_id(r) \notin DOMAIN chat_sessions]
    /\ during' = [during EXCEPT ![r] = FALSE]
    /\ Goto(r, "get_chat_session")
    /\ UNCHANGED <<prog, result, obs_boot, obs_call, obs_glob, start_chat_by,
                   used, failed_at>>

\* Lines 134-136: an id with a handle skips to line 143; otherwise the
\* document cache is tested and, when empty, bootstrapped first.
GetChatSession(r) ==
    /\ pc[r] = "get_chat_session"
    /\ Goto(r, IF ~NeedsHandle(session_id[r]) THEN "send"
               ELSE IF CacheEmpty THEN "uapf" ELSE "start_chat")
    /\ UNCHANGED <<prog, reqv, result, obs_boot, obs_call, obs_glob, obs_req>>

\* Lines 137-142: model.start_chat(history=[{parts: self.processed_files}])
\* and the store into self.chat_sessions.
StartChat(r) ==
    /\ pc[r] = "start_chat"
    /\ \E ok \in BOOLEAN :
         IF ok
         THEN /\ chat_sessions' =
                    [s \in DOMAIN chat_sessions \cup {session_id[r]} |->
                        IF s = session_id[r]
                        THEN [id |-> r, history |-> processed_files]
                        ELSE chat_sessions[s]]
              /\ start_chat_by' = [start_chat_by EXCEPT ![r] = "created"]
              /\ Goto(r, "send")
              /\ UNCHANGED <<result, obs_boot, late, ret>>
              /\ UNCHANGED failed_at
         ELSE /\ start_chat_by' = [start_chat_by EXCEPT ![r] = "raised"]
              /\ failed_at' = [failed_at EXCEPT ![r] = "start_chat"]
              /\ EndHandler(r, HTTPException("start_chat"))
              /\ UNCHANGED chat_sessions
    /\ UNCHANGED <<processed_files, lru, reqv, boot, obs_glob, used, peers,
                   fresh, during>>

\* Lines 143 and 149: the stored handle is read back and the message sent.
SendMessage(r) ==
    /\ pc[r] = "send"
    /\ used' = [used EXCEPT ![r] = {chat_sessions[session_id[r]].id}]
    /\ \E ok \in BOOLEAN :
         IF ok
         THEN /\ Goto(r, "text")
              /\ UNCHANGED <<chat_sessions, result, obs_boot, late, ret,
                             failed_at>>
         ELSE /\ failed_at' = [failed_at EXCEPT ![r] = "send_message"]
              /\ chat_sessions' = AfterFailedSend(chat_sessions, session_id[r])
              /\ EndHandler(r, HTTPException("send_message"))
    /\ UNCHANGED <<processed_files, lru, reqv, boot, obs_glob, start_chat_by,
                   peers, fresh, during>>

\* Line 165: response.text is read (it raises for a reply without text) and
\* the body {"response", "X-Session-Id"} returned; lines 168-169 otherwise.
ResponseText(r) ==
    /\ pc[r] = "text"
    /\ \E ok \in BOOLEAN :
         /\ EndHandler(r, IF ok THEN "ok" ELSE HTTPException("text"))
         /\ failed_at' = [failed_at EXCEPT ![r] = IF ok THEN @ ELSE "text"]
    /\ UNCHANGED <<prog, reqv, boot, obs_glob, start_chat_by, used, peers,
                   fresh, during>>

\* A caller (a test, a script) calls gemini_wrapper.upload_and_process_files()
\* directly, as line 17 does, between two handlers.
DirectCall ==
    /\ pc[Direct] = "done"
    /\ StartupComplete
    /\ EventLoopIdle
    /\ directs < MaxDirect
    /\ directs' = directs + 1
    /\ Goto(Direct, "uapf")
    /\ result' = [result EXCEPT ![Direct] = "none"]
    /\ boot' = [boot EXCEPT ![Direct] = "none"]
    /\ UNCHANGED <<prog, reqv, obs_boot, late, ret, uploads, cache_states,
                   first_result, obs_req>>

Bootstrap(t) ==
    \/ UapfEnter(t)
    \/ ExistsCheck(t)
    \/ Upload(t)
    \/ GetFile(t)
    \/ PollSleep(t)
    \/ CheckActive(t)
    \/ Assign(t)
    \/ UapfReturn(t)
    \/ UapfExcept(t)

Request(r) ==
    \/ Arrive(r)
    \/ Chat(r)
    \/ GetChatSession(r)
    \/ StartChat(r)
    \/ SendMessage(r)
    \/ ResponseText(r)

Next ==
    \/ Startup
    \/ \E t \in Tasks : Bootstrap(t)
    \/ \E r \in Reqs : Request(r)

Spec == Init /\ [][Next]_vars

SpecTwice == Init /\ [][Next \/ DirectCall]_vars

\* Every call of genai.get_file and time.sleep returns, and the handler that
\* runs _wait_for_files_active holds the event loop: its next step is taken.
Polling(t) == GetFile(t) \/ PollSleep(t) \/ CheckActive(t)
SpecPolling == Spec /\ \A t \in Tasks : WF_vars(Polling(t))

\* ------------------------------------------------------------------ claims
Cohort(r) == {r} \cup peers[r]
Created(s) ==
    Cardinality({q \in Reqs : session_id[q] = s /\ start_chat_by[q] = "created"})

\* C1 (session stability): an entry of chat_sessions is never removed or
\* replaced and start_chat is never called again for its id; every request
\* that sent a message sent it on the handle stored under its session id.
C1_EntryKept ==
    \A s \in DOMAIN chat_sessions :
        /\ s \in DOMAIN chat_sessions'
        /\ chat_sessions'[s] = chat_sessions[s]
        /\ StartChatCalls(s)' = StartChatCalls(s)
C1_StoredHandleUsed ==
    \A r \in Reqs : used[r] # {} =>
        /\ session_id[r] \in DOMAIN chat_sessions
        /\ used[r] = {chat_sessions[session_id[r]].id}
C1_SessionStability == [](C1_StoredHandleUsed) /\ [][C1_EntryKept]_vars
\* Two requests of one session: the first created the handle, the second sent
\* its message on it without calling start_chat.
C1_Witness ==
    \E r, q \in Reqs :
        /\ r # q /\ session_id[r] = session_id[q]
        /\ start_chat_by[r] = "created" /\ start_chat_by[q] = "none"
        /\ used[q] = {r} /\ used[r] = {r}

\* C2 (bootstrap idempotence): a call of upload_and_process_files that begins
\* after a call has returned never enters the upload/poll body, makes no
\* upload_file call, and returns the list the first call returned, which is
\* also the list self.processed_files keeps holding.
C2_BootstrapIdempotent ==
    /\ first_result # None => processed_files = first_result
    /\ \A t \in Tasks : late[t] =>
        /\ pc[t] \notin Body \cup {"except"}
        /\ up_calls[t] = 0
        /\ pc[t] = "cached" => lru.value = first_result
        /\ ret[t] # None => ret[t] = first_result
\* A direct call made after a successful one is about to return.
C2_Witness == late[Direct] /\ pc[Direct] = "cached" /\ first_result # None
\* A request for a new session made after a successful bootstrap has its
\* handle: it made no call of upload_and_process_files at all.
C2_WitnessLazy ==
    \E r \in Reqs : /\ fresh[r] /\ pc[r] = "send" /\ boot[r] = "none"
                    /\ chat_sessions[session_id[r]].history = first_result

\* C3 as stated (concurrent first requests): when requests with the same new
\* session id were queued together and all have ended, start_chat was called
\* exactly once for the id and all of them sent on the one stored handle.
C3_ExactlyOnceAllSend ==
    \A r \in Reqs :
        (fresh[r] /\ peers[r] # {} /\ \A q \in Cohort(r) : pc[q] = "done") =>
            /\ StartChatCalls(session_id[r]) = 1
            /\ session_id[r] \in DOMAIN chat_sessions
            /\ \A q \in Cohort(r) : used[q] = {chat_sessions[session_id[r]].id}
\* C3 amended: for requests with the same new session id queued together, at
\* most one handle is ever created for the id; every one of them that sends a
\* message sends it on the stored handle; and every one that ends without an
\* error has sent.
C3_OneHandle ==
    \A r \in Reqs : (fresh[r] /\ peers[r] # {}) =>
        /\ Created(session_id[r]) <= 1
        /\ \A q \in Cohort(r) :
            /\ used[q] # {} =>
                /\ session_id[r] \in DOMAIN chat_sessions
                /\ used[q] = {chat_sessions[session_id[r]].id}
            /\ (pc[q] = "done" /\ failed_at[q] = "none") => used[q] # {}
\* Two requests queued together with one new id have both been answered.
C3_Witness ==
    \E r \in Reqs :
        /\ fresh[r] /\ peers[r] # {}
        /\ \A q \in Cohort(r) : result[q] = "ok" /\ used[q] = {r}
        /\ Created(session_id[r]) = 1

\* C4 (bootstrap mutual exclusion): at most one task is inside the
\* upload/poll sequence, and while one is, no other handler runs: a request
\* that arrived during the bootstrap is still queued.
C4_SingleBootstrap ==
    /\ Cardinality({t \in Tasks : pc[t] \in Body}) <= 1
    /\ \A t \in Tasks : pc[t] \in Body =>
        \A q \in Reqs \ {t} : pc[q] \in Parked
\* A request that arrived while another request's bootstrap was uploading.
C4_Witness ==
    \E t \in Tasks, q \in Reqs :
        pc[t] \in {"upload", "poll"} /\ pc[q] = "queued" /\ during[q]

\* C5 as stated: no configured file is uploaded more than once in the
\* lifetime of the process.
C5_UploadedAtMostOnce == \A i \in 1..NDocs : uploads[i] # "again"

\* C6 as stated (per-document budget): the bootstrap gives up on a document
\* that reports Processing only after 30 sleeps spent on that document.
C6_GaveUp(t) ==
    /\ pc[t] \in {"wait", "poll"} /\ pc'[t] = "except"
    /\ error'[t].kind = "state"
C6_PerDocumentBudget ==
    [][\A t \in Tasks : (C6_GaveUp(t) /\ error'[t].state = "PROCESSING") =>
          (retry_count[t] = max_retries /\ ~shared[t])]_vars
\* C6 amended (shared budget): the 30 sleeps are counted over all documents
\* of one bootstrap.  The count never passes 30; a document read as Active
\* never makes the bootstrap fail; the bootstrap gives up on a document that
\* reports Processing exactly when the count of the whole bootstrap is 30.
C6_SharedBudget ==
    /\ [](\A t \in Tasks : retry_count[t] <= max_retries)
    /\ [][\A t \in Tasks : C6_GaveUp(t) =>
            /\ error'[t].state # "ACTIVE"
            /\ error'[t].state = "PROCESSING" =>
                   retry_count[t] = max_retries]_vars
\* The second document still reports Processing when the budget, part of
\* which the first document spent, is used up.
C6_Witness ==
    \E t \in Tasks : /\ pc[t] = "poll" /\ idx[t] = 2 /\ shared[t]
                     /\ state[t] = "PROCESSING"
                     /\ retry_count[t] = max_retries

\* C7 (polling ceiling): when a document still reports Processing after 30
\* attempts the task's next step raises and leaves processed_files None; the
\* cache is None whenever a bootstrap is raising; and no step taken while the
\* cache is None adds or changes an entry of chat_sessions.
C7_Moves(t) == <<pc[t], retry_count[t]>>' # <<pc[t], retry_count[t]>>
C7_PollingCeiling ==
    /\ [](\A t \in Tasks : pc[t] = "except" => processed_files = None)
    /\ [][/\ \A t \in Tasks :
               (/\ pc[t] = "poll" /\ state[t] = "PROCESSING"
                /\ retry_count[t] >= max_retries /\ C7_Moves(t)) =>
                   /\ pc'[t] = "except"
                   /\ error'[t] = Error("state", idx[t], "PROCESSING")
                   /\ processed_files' = None
          /\ processed_files = None => chat_sessions' = chat_sessions]_vars
\* A request's bootstrap timed out after the startup bootstrap had failed.
C7_Witness ==
    \E r \in Reqs : /\ pc[r] = "except"
                    /\ error[r].kind = "state" /\ error[r].state = "PROCESSING"
                    /\ boot[Lifespan] = "failed" /\ chat_sessions = <<>>

\* C8 (missing file): a bootstrap whose existence check found a path missing
\* raises FileNotFoundError having made no upload_file call.
C8_MissingFileNoUpload ==
    \A t \in Tasks : missing[t] =>
        /\ pc[t] = "except"
        /\ error[t].kind = "FileNotFoundError"
        /\ up_calls[t] = 0
        /\ processed_files = None
\* The second path is the missing one; the first exists and was not uploaded.
C8_Witness ==
    \E t \in Tasks : missing[t] /\ error[t].doc = 2 /\ up_calls[t] = 0

\* C9 (all or nothing): a populated processed_files holds one document per
\* configured path, in order, each last read as ACTIVE by the bootstrap that
\* stored it; while a bootstrap is raising, processed_files is None.
C9_AllOrNothing ==
    /\ processed_files # None =>
        /\ Len(processed_files) = NDocs
        /\ \A i \in 1..NDocs : processed_files[i].path = file_paths[i]
        /\ cache_states = [i \in 1..NDocs |-> "ACTIVE"]
    /\ \A t \in Tasks : pc[t] = "except" =>
           processed_files = None /\ files[t] = <<>>
\* The cache was populated by a request after the startup bootstrap failed.
C9_Witness == processed_files # None /\ boot[Lifespan] = "failed"

\* C10 as stated (failure is not cached): a request for a new session that
\* got past line 136 without running the upload/poll body found the cache
\* populated; a queued request can be dispatched whenever the loop is idle;
\* and a request whose bootstrap succeeded ends with a handle and a reply.
C10_RunsAgain ==
    \A r \in Reqs :
        (fresh[r] /\ pc[r] \in {"start_chat", "send", "text", "done"}
                  /\ boot[r] = "none") => first_result # None
C10_Accepting ==
    \A r \in Reqs : (pc[r] = "queued" /\ StartupComplete /\ EventLoopIdle) =>
        ENABLED Chat(r)
C10_HandleAndReply ==
    C10_RunsAgain /\ C10_Accepting /\
    \A r \in Reqs : (boot[r] = "ok" /\ pc[r] = "done") =>
        result[r] = "ok" /\ session_id[r] \in DOMAIN chat_sessions
\* C10 amended: as above, but the request whose bootstrap succeeded gets its
\* handle and reply provided start_chat, send_message and response.text do
\* not raise; if one of them raises the request ends with the error.
C10_FailureNotCached ==
    C10_RunsAgain /\ C10_Accepting /\
    \A r \in Reqs : (boot[r] = "ok" /\ pc[r] = "done") =>
        IF failed_at[r] = "none"
        THEN /\ result[r] = "ok"
             /\ session_id[r] \in DOMAIN chat_sessions
             /\ used[r] = {chat_sessions[session_id[r]].id}
        ELSE /\ result[r] = "500"
             /\ failed_at[r] \in {"start_chat", "send_message", "text"}
\* After the startup bootstrap failed, a request ran it again, with success,
\* and was answered.
C10_Witness ==
    \E r \in Reqs : /\ boot[Lifespan] = "failed" /\ boot[r] = "ok"
                    /\ result[r] = "ok" /\ used[r] = {r}

\* C11 (failures end as HTTP 500): a request ended by an exception of the
\* bootstrap, of start_chat, of send_message or of response.text has the
\* outcome HTTPException(500) with a detail string, and only such a request
\* has it; the failure leaves the event loop free, so that a queued request
\* is dispatched next and a new one can arrive.
C11_Sites == {"bootstrap", "start_chat", "send_message", "text"}
C11_FailuresEndAs500 ==
    /\ \A r \in Reqs : pc[r] = "done" =>
          /\ result[r] \in {"ok", "500"}
          /\ result[r] = "500" <=> failed_at[r] \in C11_Sites
          /\ result[r] = "ok" <=> failed_at[r] = "none"
          /\ result[r] = "500" => detail(failed_at[r]) # None
    /\ \A r \in Reqs : (pc[r] = "done" /\ result[r] = "500") =>
          /\ \A q \in Reqs : (pc[q] = "queued" /\ EventLoopIdle) =>
                ENABLED Chat(q)
          /\ \A q \in Reqs :
                (pc[q] = "new" /\ EventLoopIdle /\ (q = 1 \/ pc[q - 1] # "new"))
                    => ENABLED Arrive(q)
\* A request was ended by the failure of its bootstrap; a request handled
\* after it ran the bootstrap again, with success, and was answered.
C11_Witness ==
    \E r, q \in Reqs :
        /\ result[r] = "500" /\ failed_at[r] = "bootstrap"
        /\ boot[q] = "ok" /\ result[q] = "ok"

\* C12 (session id round trip): a request dispatched without a header, or
\* with an empty one, gets an id that is not a key of chat_sessions; the id
\* an answered request returns is the key of the handle it sent on; and a
\* request that carries an id generated for an earlier request creates no
\* handle, runs no bootstrap and sends on the handle of that request.
C12_FreshId(r) ==
    (pc[r] = "queued" /\ pc'[r] = "get_chat_session" /\ Falsy(header[r])) =>
        /\ session_id'[r] \notin DOMAIN chat_sessions
        /\ session_id'[r] \notin ClientIds \cup {None, HeaderEmpty}
        /\ \A q \in Reqs \ {r} : session_id'[r] # session_id[q]
C12_ReturnedIsKey ==
    \A r \in Reqs : result[r] = "ok" =>
        /\ session_id[r] \in DOMAIN chat_sessions
        /\ used[r] = {chat_sessions[session_id[r]].id}
C12_FollowUp ==
    \A r, q \in Reqs : (r # q /\ session_id[q] = uuid4(r)) =>
        /\ result[r] = "ok"
        /\ ~fresh[q] /\ boot[q] = "none" /\ up_calls[q] = 0
        /\ start_chat_by[q] = "none"
        /\ pc[q] \in {"get_chat_session", "send", "text", "done"}
        /\ used[q] \in {{}, {chat_sessions[uuid4(r)].id}}
        /\ chat_sessions[uuid4(r)].id = r
C12_RoundTrip ==
    /\ [](C12_ReturnedIsKey /\ C12_FollowUp)
    /\ [][\A r \in Reqs : C12_FreshId(r)]_vars
\* A request without a header was answered under a generated id; a second
\* request carried that id and was answered on the same handle.
C12_Witness ==
    \E r, q \in Reqs :
        /\ r # q /\ session_id[r] = uuid4(r) /\ session_id[q] = uuid4(r)
        /\ result[r] = "ok" /\ result[q] = "ok" /\ used[q] = {r}

\* C13 (startup ordering): a chat request is accepted and dispatched only
\* after the startup call of lifespan has ended, with the document list or
\* with a logged failure; that call ran the upload/poll sequence, and once it
\* has ended lifespan makes no other.
C13_AfterStartup ==
    \A r \in Reqs : pc[r] # "new" =>
        /\ pc[Lifespan] = "done"
        /\ result[Lifespan] \in {"ok", "logged"}
        /\ boot[Lifespan] = IF result[Lifespan] = "ok" THEN "ok" ELSE "failed"
C13_Once ==
    pc[Lifespan] = "done" =>
        /\ pc'[Lifespan] = "done"
        /\ boot'[Lifespan] = boot[Lifespan]
        /\ result'[Lifespan] = result[Lifespan]
C13_StartupOrdering == [](C13_AfterStartup) /\ [][C13_Once]_vars
\* The startup bootstrap failed and was logged; a request is being handled.
C13_Witness ==
    \E r \in Reqs : pc[r] = "get_chat_session" /\ result[Lifespan] = "logged"

\* C14 (handles are seeded with the cached documents): whenever chat_sessions
\* has an entry, processed_files holds the complete document list, and the
\* history every handle was created with is that list.
C14_SeededWithCache ==
    chat_sessions # <<>> =>
        /\ processed_files # None
        /\ Len(processed_files) = NDocs
        /\ \A s \in DOMAIN chat_sessions :
              chat_sessions[s].history = processed_files
\* Two sessions have handles; the documents they were seeded with were
\* uploaded by a request, the startup bootstrap having failed.
C14_Witness ==
    /\ Cardinality(DOMAIN chat_sessions) = 2
    /\ boot[Lifespan] = "failed"
    /\ \E r \in Reqs : boot[r] = "ok" /\ processed_files[1].name[1] = r

\* C15 (polling terminates): a call of _wait_for_files_active has slept at
\* most 30 times, whatever the documents it has got to, and a task inside it
\* eventually leaves it, for line 86 or with an exception.
C15_InLoop(t) == pc[t] \in {"wait", "poll"}
C15_PollingTerminates ==
    /\ [](\A t \in Tasks : C15_InLoop(t) =>
            /\ retry_count[t] \in 0..max_retries
            /\ idx[t] \in 1..NDocs)
    /\ [][\A t \in Tasks : (C15_InLoop(t) /\ ~C15_InLoop(t)') =>
              pc'[t] \in {"assign", "except"}]_vars
    /\ (\E t \in Tasks : C15_InLoop(t)) ~> (\A t \in Tasks : ~C15_InLoop(t))
\* The first document reported Processing at every read: the startup
\* bootstrap gave up on it after the 30th sleep.
C15_Witness ==
    /\ pc[Lifespan] = "except"
    /\ error[Lifespan] = Error("state", 1, "PROCESSING")

\* C16 (a failed document aborts at once): a task stays in the polling loop
\* only with a document it last read as PROCESSING; the step that reads
\* another state than PROCESSING or ACTIVE raises in that same step, naming
\* the document being read and that state, when only the documents before it
\* had been passed; and a task that is raising makes no further read or sleep.
C16_Aborts(t) ==
    (pc'[t] = "except" /\ pc[t] # "except" /\ error'[t].kind = "state") =>
        /\ pc[t] \in {"wait", "poll"}
        /\ state[t] \in {"none", "PROCESSING"}
        /\ error'[t].doc = idx[t]
        /\ error'[t].state \in {"FAILED", "PROCESSING"}
        /\ error'[t].state = "FAILED" => retry_count[t] < max_retries
                                          \/ pc[t] = "wait"
        /\ Len(seen[t]) = idx[t] - 1
C16_FailedAbortsAtOnce ==
    /\ [](\A t \in Tasks :
            /\ pc[t] = "poll" => state[t] = "PROCESSING"
            /\ pc[t] = "wait" => state[t] = "none"
            /\ pc[t] = "except" => ~ENABLED Polling(t))
    /\ [][\A t \in Tasks : C16_Aborts(t)]_vars
\* The first document was read as FAILED; the startup bootstrap is raising
\* the error that names it, and the second document was never read.
C16_Witness ==
    /\ pc[Lifespan] = "except"
    /\ error[Lifespan] = Error("state", 1, "FAILED")

\* C17 (a failed send keeps the session): a request that created its handle
\* and whose send_message raised has ended with the error while the handle
\* it created is the entry of its id; every other request of that id created
\* no handle and, if it sent, sent on that one; a request ended by its
\* bootstrap or by start_chat created no entry, and chat_sessions changes only
\* by the entry a successful start_chat adds.
C17_HandleStays ==
    \A r \in Reqs :
        (failed_at[r] = "send_message" /\ start_chat_by[r] = "created") =>
            /\ result[r] = "500"
            /\ session_id[r] \in DOMAIN chat_sessions
            /\ chat_sessions[session_id[r]].id = r
            /\ \A q \in Reqs \ {r} : session_id[q] = session_id[r] =>
                  /\ start_chat_by[q] # "created"
                  /\ used[q] \in {{}, {r}}
C17_NoEntryBefore ==
    \A r \in Reqs : failed_at[r] \in {"bootstrap", "start_chat"} =>
        /\ start_chat_by[r] # "created"
        /\ used[r] = {}
        /\ \A s \in DOMAIN chat_sessions : chat_sessions[s].id # r
C17_OnlyAdded ==
    chat_sessions' # chat_sessions =>
        \E r \in Reqs :
            /\ pc[r] = "start_chat" /\ pc'[r] = "send"
            /\ session_id[r] \notin DOMAIN chat_sessions
            /\ DOMAIN chat_sessions' = DOMAIN chat_sessions \cup {session_id[r]}
            /\ \A s \in DOMAIN chat_sessions :
                  chat_sessions'[s] = chat_sessions[s]
C17_NoRollback ==
    [](C17_HandleStays /\ C17_NoEntryBefore) /\ [][C17_OnlyAdded]_vars
\* The first message of a new session failed in send_message; a later request
\* of the same id was answered on the handle the failed request had created.
C17_Witness ==
    \E r, q \in Reqs :
        /\ r # q /\ session_id[q] = session_id[r]
        /\ failed_at[r] = "send_message" /\ start_chat_by[r] = "created"
        /\ start_chat_by[q] = "none" /\ used[q] = {r} /\ result[q] = "ok"

====
